---- MODULE Spec2Model ----
(***************************************************************************)
(* The ledger-balancing engine of src/app.js: calculateBalances and        *)
(* resolveSettlements, run on a trip drawn from a bounded set of trips:    *)
(* Spec on the trips that keep the data model, SpecMalformed on trips that *)
(* break it, LiveSpec on fair runs of the matching loop, SpecConcurrent on *)
(* two invocations interleaved.                                            *)
(*                                                                         *)
(* The store of src/app.js, the functions that change the item kept in     *)
(* localStorage: SpecStore on the calls that add to the stored data and    *)
(* change the persons and the expenses of a trip, SpecPage on every call   *)
(* and every click in the list of trips of one tab.                        *)
(*                                                                         *)
(* A JavaScript number is an IEEE-754 binary64.  The engine compares       *)
(* amounts against 0.01 after subtracting cent values from one another,    *)
(* so the rounding of every operation is part of its behaviour.  A number  *)
(* is modelled exactly: a sign and a magnitude in fixed point, four limbs  *)
(* of 24 bits <<i, f1, f2, f3>> standing for                               *)
(*     i + f1 / 2^24 + f2 / 2^48 + f3 / 2^72,                              *)
(* and every operation rounds its exact result to 53 significant bits,     *)
(* ties to even, as the hardware does.  All amounts of the model are       *)
(* below 2^24 and at least 2^-19 unless they are exact differences, so     *)
(* every binary64 value the engine computes is such a fixed-point value.   *)
(***************************************************************************)
EXTENDS Integers, Sequences, FiniteSets, TLC

----------------------------------------------------------------------------
(* Magnitudes: unsigned fixed point, 4 limbs of 24 bits.                   *)

Limb == 2^24

Pow2 == [k \in 0..24 |-> 2^k]

BitLen(x) == CHOOSE k \in 0..24 : x < Pow2[k] /\ (k = 0 \/ Pow2[k-1] <= x)

MagZero == <<0, 0, 0, 0>>

MagLess(a, b) ==
    \/ a[1] < b[1]
    \/ a[1] = b[1] /\ a[2] < b[2]
    \/ a[1] = b[1] /\ a[2] = b[2] /\ a[3] < b[3]
    \/ a[1] = b[1] /\ a[2] = b[2] /\ a[3] = b[3] /\ a[4] < b[4]

MagAdd(a, b) ==
    LET s4 == a[4] + b[4]
        s3 == a[3] + b[3] + (s4 \div Limb)
        s2 == a[2] + b[2] + (s3 \div Limb)
        s1 == a[1] + b[1] + (s2 \div Limb)
    IN  <<s1, s2 % Limb, s3 % Limb, s4 % Limb>>

\* a - b for a >= b
MagSub(a, b) ==
    LET d4 == a[4] - b[4]
        d3 == a[3] - b[3] - (IF d4 < 0 THEN 1 ELSE 0)
        d2 == a[2] - b[2] - (IF d3 < 0 THEN 1 ELSE 0)
        d1 == a[1] - b[1] - (IF d2 < 0 THEN 1 ELSE 0)
    IN  <<d1, d2 % Limb, d3 % Limb, d4 % Limb>>

\* a * n for a small natural n (n <= 100)
MagMulInt(a, n) ==
    LET p4 == a[4] * n
        p3 == a[3] * n + (p4 \div Limb)
        p2 == a[2] * n + (p3 \div Limb)
        p1 == a[1] * n + (p2 \div Limb)
    IN  <<p1, p2 % Limb, p3 % Limb, p4 % Limb>>

\* floor(a / n) and whether a remainder is left, for 1 <= n <= 100
MagDivInt(a, n) ==
    LET t2 == (a[1] % n) * Limb + a[2]
        t3 == (t2 % n) * Limb + a[3]
        t4 == (t3 % n) * Limb + a[4]
    IN  [q |-> <<a[1] \div n, t2 \div n, t3 \div n, t4 \div n>>,
         sticky |-> (t4 % n) # 0]

\* Round a magnitude to 53 significant bits, ties to even.  sticky says that
\* the exact value lies strictly above m (bits below 2^-72 that are not 0).
RoundMag(m, sticky) ==
    LET len == IF m[1] > 0 THEN 72 + BitLen(m[1])
               ELSE IF m[2] > 0 THEN 48 + BitLen(m[2])
               ELSE 0
        q == len - 53
    IN  IF q <= 0 THEN m
        ELSE IF q <= 24 THEN
            LET low  == m[4] % Pow2[q]
                half == Pow2[q-1]
                odd  == IF q = 24 THEN m[3] % 2 = 1
                        ELSE (m[4] \div Pow2[q]) % 2 = 1
                up   == low > half \/ (low = half /\ (sticky \/ odd))
                base == <<m[1], m[2], m[3], m[4] - low>>
            IN  IF up
                THEN MagAdd(base, IF q = 24 THEN <<0, 0, 1, 0>>
                                  ELSE <<0, 0, 0, Pow2[q]>>)
                ELSE base
        ELSE
            LET r    == q - 24
                low  == m[3] % Pow2[r]
                half == Pow2[r-1]
                odd  == (m[3] \div Pow2[r]) % 2 = 1
                up   == low > half
                        \/ (low = half /\ (m[4] > 0 \/ sticky \/ odd))
                base == <<m[1], m[2], m[3] - low, 0>>
            IN  IF up THEN MagAdd(base, <<0, 0, Pow2[r], 0>>) ELSE base

----------------------------------------------------------------------------
(* Numbers: finite values, NaN and Infinity.                               *)

NaN == [k |-> "nan", s |-> 1, m |-> MagZero]

Infinity == [k |-> "inf", s |-> 1, m |-> MagZero]

Fin(s, m) == [k |-> "fin", s |-> IF m = MagZero THEN 1 ELSE s, m |-> m]

FromInt(n) == Fin(IF n < 0 THEN -1 ELSE 1, <<IF n < 0 THEN -n ELSE n, 0, 0, 0>>)

Zero == FromInt(0)

IsFin(x) == x.k = "fin"

NumNeg(x) == IF IsFin(x) THEN Fin(0 - x.s, x.m) ELSE x

NumAbs(x) == IF IsFin(x) THEN Fin(1, x.m) ELSE x

\* x + y
NumAdd(x, y) ==
    IF ~IsFin(x) \/ ~IsFin(y) THEN NaN
    ELSE IF x.s = y.s THEN Fin(x.s, RoundMag(MagAdd(x.m, y.m), FALSE))
    ELSE IF MagLess(x.m, y.m) THEN Fin(y.s, RoundMag(MagSub(y.m, x.m), FALSE))
    ELSE Fin(x.s, RoundMag(MagSub(x.m, y.m), FALSE))

\* x - y
NumSub(x, y) == NumAdd(x, NumNeg(y))

\* x * n, n a small natural
NumMulInt(x, n) ==
    IF ~IsFin(x) THEN x ELSE Fin(x.s, RoundMag(MagMulInt(x.m, n), FALSE))

\* x / n, n a small natural; a positive number over 0 is Infinity
NumDivInt(x, n) ==
    IF ~IsFin(x) THEN x
    ELSE IF n = 0 THEN (IF x.m = MagZero THEN NaN ELSE Infinity)
    ELSE LET d == MagDivInt(x.m, n) IN Fin(x.s, RoundMag(d.q, d.sticky))

\* x < y; every comparison with NaN is false
NumLess(x, y) ==
    /\ IsFin(x) /\ IsFin(y)
    /\ \/ x.s = -1 /\ y.s = 1 /\ (x.m # MagZero \/ y.m # MagZero)
       \/ x.s = 1 /\ y.s = 1 /\ MagLess(x.m, y.m)
       \/ x.s = -1 /\ y.s = -1 /\ MagLess(y.m, x.m)

\* Math.min(x, y)
MathMin(x, y) ==
    IF ~IsFin(x) \/ ~IsFin(y) THEN NaN ELSE IF NumLess(y, x) THEN y ELSE x

\* Math.round as it would be if a tie went away from zero
MathRoundAwayFromZero(x) ==
    IF ~IsFin(x) THEN x
    ELSE LET frac == <<0, x.m[2], x.m[3], x.m[4]>>
             half == <<0, Limb \div 2, 0, 0>>
             up   == IF MagLess(frac, half) THEN x.m[1] ELSE x.m[1] + 1
         IN  FromInt(x.s * up)

\* Math.round(x): the integer nearest to x, a tie going to +Infinity
MathRound(x) ==
    IF ~IsFin(x) THEN x
    ELSE LET frac      == <<0, x.m[2], x.m[3], x.m[4]>>
             half      == <<0, Limb \div 2, 0, 0>>
         IN  IF x.s = 1
             THEN FromInt(IF MagLess(frac, half) THEN x.m[1] ELSE x.m[1] + 1)
             ELSE FromInt(IF MagLess(half, frac) THEN -(x.m[1] + 1) ELSE -x.m[1])

\* The number a decimal literal of c cents denotes (0.01 is Cents(1))
Cents(c) == NumDivInt(FromInt(c), 100)

----------------------------------------------------------------------------
(* The inputs: trips.  A person is its id; an expense holds its amount,    *)
(* its payer and the array of its participants.                            *)

NumPersons == 4

\* the numbers of expenses of the enumerated trips
ExpenseCounts == 0..2

\* the amounts of the enumerated expenses, in cents
AmountCents == {2, 5}

PersonIds == 1..NumPersons

RECURSIVE Ascending(_)
\* the array that lists a set of ids in ascending order
Ascending(S) ==
    IF S = {} THEN <<>>
    ELSE LET x == CHOOSE y \in S : \A z \in S : y <= z
         IN  <<x>> \o Ascending(S \ {x})

ExpenseInputs ==
    [amount : {Cents(c) : c \in AmountCents},
     paidBy : PersonIds,
     participants : {Ascending(S) : S \in SUBSET PersonIds}]

ExpenseLists == UNION {[1..n -> ExpenseInputs] : n \in ExpenseCounts}

GeneralTrips ==
    {[persons |-> [i \in 1..NumPersons |-> i], expenses |-> es] : es \in ExpenseLists}

\* the trip of runSelfTest: persons A, B, C are 1, 2, 3
SelfTestTrip ==
    [persons |-> <<1, 2, 3>>,
     expenses |-> << [amount |-> FromInt(300), paidBy |-> 1, participants |-> <<1, 2, 3>>],
                     [amount |-> FromInt(300), paidBy |-> 2, participants |-> <<2, 3>>] >>]

\* one expense whose payer X = 1 is not among its participants Y = 2, Z = 3
PayerExcludedTrip ==
    [persons |-> <<1, 2, 3>>,
     expenses |-> << [amount |-> FromInt(90), paidBy |-> 1, participants |-> <<2, 3>>] >>]

\* A = 1 owes 50, B = 2 owes 30, C = 3 is owed 80
ChainTrip ==
    [persons |-> <<1, 2, 3>>,
     expenses |-> << [amount |-> FromInt(50), paidBy |-> 3, participants |-> <<1>>],
                     [amount |-> FromInt(30), paidBy |-> 3, participants |-> <<2>>] >>]

\* A = 1 is left with a raw 0.005 while D = 4 owes C = 3 its 50
NearZeroTrip ==
    [persons |-> <<1, 2, 3, 4>>,
     expenses |-> << [amount |-> Cents(1), paidBy |-> 1, participants |-> <<1, 2>>],
                     [amount |-> FromInt(50), paidBy |-> 3, participants |-> <<4>>] >>]

Trips == GeneralTrips \cup {SelfTestTrip, PayerExcludedTrip, ChainTrip, NearZeroTrip}

----------------------------------------------------------------------------
(* Inputs that break the data model.  A field a trip lacks is undefined;   *)
(* Null is no trip at all.                                                 *)

Null == [null |-> TRUE]

\* undefined, which a function that ends without a return statement returns
Undefined == [undefined |-> TRUE]

\* t.persons, t.expenses is not undefined
HasPersons(t) == t # Null /\ "persons" \in DOMAIN t

HasExpenses(t) == t # Null /\ "expenses" \in DOMAIN t

\* the expense lists of the trips without persons
FewExpenseLists == {es \in ExpenseLists : Len(es) <= 1}

\* trips without a persons list
PersonlessTrips == {[expenses |-> es] : es \in FewExpenseLists}

\* trips whose persons list is empty
EmptyTrips == {[persons |-> <<>>, expenses |-> es] : es \in FewExpenseLists}

\* a trip of persons without an expenses list
ExpenselessTrip == [persons |-> <<1, 2>>]

\* trips whose expenses may name the id NumPersons, which is no person
DanglingTrips ==
    {[persons |-> [i \in 1..(NumPersons - 1) |-> i], expenses |-> es] : es \in ExpenseLists}

MalformedTrips ==
    {Null, ExpenselessTrip} \cup PersonlessTrips \cup EmptyTrips \cup DanglingTrips

----------------------------------------------------------------------------
(* A balances object: its keys in insertion order and their values.        *)

EmptyObject == [keys |-> <<>>, val |-> [j \in {} |-> Zero]]

\* balances[id] read inside += or -=: a missing key is undefined, and
\* undefined plus or minus a number is NaN
Lookup(b, id) == IF id \in DOMAIN b.val THEN b.val[id] ELSE NaN

\* balances[id] = v
Assign(b, id, v) ==
    [keys |-> IF id \in DOMAIN b.val THEN b.keys ELSE Append(b.keys, id),
     val  |-> [j \in DOMAIN b.val \cup {id} |-> IF j = id THEN v ELSE b.val[j]]]

\* Math.round(x * 100) / 100, each of the three operations evaluated once
Round2(x) ==
    CHOOSE r \in {NumDivInt(y, 100) : y \in {MathRound(z) : z \in {NumMulInt(x, 100)}}} : TRUE

\* InitBalances as it would be if no balance were initialized
InitBalancesMissing(b, persons) == b

RECURSIVE InitBalances(_, _)
InitBalances(b, persons) ==
    IF persons = <<>> THEN b
    ELSE InitBalances(Assign(b, Head(persons), Zero), Tail(persons))

RECURSIVE DebitParticipants(_, _, _)
DebitParticipants(b, participants, split) ==
    IF participants = <<>> THEN b
    ELSE DebitParticipants(
             Assign(b, Head(participants),
                    NumSub(Lookup(b, Head(participants)), split)),
             Tail(participants), split)

\* ProcessExpense as it would be if the payer always owed a share
ProcessExpensePayerShares(b, expense) ==
    LET sharers == IF \E i \in DOMAIN expense.participants :
                          expense.participants[i] = expense.paidBy
                   THEN expense.participants
                   ELSE Append(expense.participants, expense.paidBy)
        split == NumDivInt(expense.amount, Len(sharers))
        credited == Assign(b, expense.paidBy,
                           NumAdd(Lookup(b, expense.paidBy), expense.amount))
    IN  DebitParticipants(credited, sharers, split)

ProcessExpense(b, expense) ==
    LET split == NumDivInt(expense.amount, Len(expense.participants))
        credited == Assign(b, expense.paidBy,
                           NumAdd(Lookup(b, expense.paidBy), expense.amount))
    IN  DebitParticipants(credited, expense.participants, split)

RECURSIVE ProcessExpenses(_, _)
ProcessExpenses(b, expenses) ==
    IF expenses = <<>> THEN b
    ELSE ProcessExpenses(ProcessExpense(b, Head(expenses)), Tail(expenses))

\* the balances before the final rounding
RawBalances(t) == ProcessExpenses(InitBalances(EmptyObject, t.persons), t.expenses)

RoundBalances(b) == [keys |-> b.keys, val |-> [j \in DOMAIN b.val |-> Round2(b.val[j])]]

\* NothingToBalance as it would be if only the trip were tested
NothingToBalanceUnlessNull(t) == t = Null

\* !trip || !trip.persons || trip.persons.length === 0
NothingToBalance(t) == t = Null \/ ~HasPersons(t) \/ Len(t.persons) = 0

\* calculateBalances throws a TypeError: it calls forEach on a persons or
\* an expenses list that is undefined
calculateBalancesRaises(t) ==
    ~NothingToBalance(t) /\ (~HasPersons(t) \/ ~HasExpenses(t))

calculateBalances(t) ==
    IF NothingToBalance(t) THEN EmptyObject ELSE RoundBalances(RawBalances(t))

----------------------------------------------------------------------------
(* resolveSettlements                                                      *)

Epsilon == Cents(1)

RECURSIVE ClassifyUnlessSmall(_, _, _)
\* Classify as it would be if a creditor were a balance that is not <= 0.01
ClassifyUnlessSmall(b, keys, credit) ==
    IF keys = <<>> THEN <<>>
    ELSE LET id == Head(keys)
             balance == b.val[id]
             rest == ClassifyUnlessSmall(b, Tail(keys), credit)
         IN  IF credit /\ ~(NumLess(balance, Epsilon) \/ balance = Epsilon)
             THEN <<[id |-> id, amount |-> balance]>> \o rest
             ELSE IF ~credit /\ ~NumLess(Epsilon, balance)
                     /\ NumLess(balance, NumNeg(Epsilon))
             THEN <<[id |-> id, amount |-> NumAbs(balance)]>> \o rest
             ELSE rest

RECURSIVE ClassifyBySign(_, _, _)
\* Classify as it would be with 0 as the threshold
ClassifyBySign(b, keys, credit) ==
    IF keys = <<>> THEN <<>>
    ELSE LET id == Head(keys)
             balance == b.val[id]
             rest == ClassifyBySign(b, Tail(keys), credit)
         IN  IF credit /\ NumLess(Zero, balance)
             THEN <<[id |-> id, amount |-> balance]>> \o rest
             ELSE IF ~credit /\ NumLess(balance, Zero)
             THEN <<[id |-> id, amount |-> NumAbs(balance)]>> \o rest
             ELSE rest

RECURSIVE Classify(_, _, _)
\* the creditors (credit = TRUE) or the debtors of the balances, in key order
Classify(b, keys, credit) ==
    IF keys = <<>> THEN <<>>
    ELSE LET id == Head(keys)
             balance == b.val[id]
             rest == Classify(b, Tail(keys), credit)
         IN  IF credit /\ NumLess(Epsilon, balance)
             THEN <<[id |-> id, amount |-> balance]>> \o rest
             ELSE IF ~credit /\ ~NumLess(Epsilon, balance)
                     /\ NumLess(balance, NumNeg(Epsilon))
             THEN <<[id |-> id, amount |-> NumAbs(balance)]>> \o rest
             ELSE rest

RECURSIVE InsertDesc(_, _)
\* x put into a descending list after every entry that is not smaller
InsertDesc(list, x) ==
    IF list = <<>> THEN <<x>>
    ELSE IF NumLess(Head(list).amount, x.amount) THEN <<x>> \o list
    ELSE <<Head(list)>> \o InsertDesc(Tail(list), x)

\* the sort left out: the lists keep the key order
SortDescMissing(sorted, list) == sorted \o list

RECURSIVE SortDesc(_, _)
\* list.sort((a, b) => b.amount - a.amount): a stable sort, largest first
SortDesc(sorted, list) ==
    IF list = <<>> THEN sorted
    ELSE SortDesc(InsertDesc(sorted, Head(list)), Tail(list))

\* payment as it would be if the larger of the two amounts were paid
paymentOfLarger(cs, ds) ==
    IF NumLess(cs[1].amount, ds[1].amount) THEN ds[1].amount ELSE cs[1].amount

\* payment as it would be if one pass moved 0.02 at most
paymentByInstalment(cs, ds) ==
    MathMin(MathMin(cs[1].amount, ds[1].amount), Cents(2))

payment(cs, ds) == MathMin(cs[1].amount, ds[1].amount)

\* Record with the two parties of a settlement exchanged
RecordExchanged(ss, cs, ds) ==
    IF NumLess(Epsilon, payment(cs, ds))
    THEN Append(ss, [from |-> cs[1].id, to |-> ds[1].id,
                     amount |-> Round2(payment(cs, ds))])
    ELSE ss

\* the settlements after one pass of the loop body
Record(ss, cs, ds) ==
    IF NumLess(Epsilon, payment(cs, ds))
    THEN Append(ss, [from |-> ds[1].id, to |-> cs[1].id,
                     amount |-> Round2(payment(cs, ds))])
    ELSE ss

\* Settle as it would be if a party were removed once it had less than 0 left
SettleBelowZero(list, p) ==
    LET left == NumSub(list[1].amount, p)
    IN  IF NumLess(left, Zero) THEN Tail(list)
        ELSE <<[id |-> list[1].id, amount |-> left]>> \o Tail(list)

\* a working list after its head has paid or received p
Settle(list, p) ==
    LET left == NumSub(list[1].amount, p)
    IN  IF NumLess(left, Epsilon) THEN Tail(list)
        ELSE <<[id |-> list[1].id, amount |-> left]>> \o Tail(list)

RECURSIVE Loop(_, _, _)
\* the settlements the while loop ends with
Loop(ss, cs, ds) ==
    IF cs = <<>> \/ ds = <<>> THEN ss
    ELSE Loop(Record(ss, cs, ds),
              Settle(cs, payment(cs, ds)), Settle(ds, payment(cs, ds)))

\* resolveSettlements(b, persons) for a persons list that is not undefined
resolveSettlements(b) ==
    Loop(<<>>, SortDesc(<<>>, Classify(b, b.keys, TRUE)),
               SortDesc(<<>>, Classify(b, b.keys, FALSE)))

----------------------------------------------------------------------------
(* The state machine: one computation of the engine on one trip.           *)
(* It runs beside a second computation that is suspended, in a page that   *)
(* holds the stored trips.                                                 *)
VARIABLES trip, pc, balances, creditors, debtors, settlements,
          other,
          storage, currentTripId, selectedTripIds, uuids,
          called, returned, alerted

vars == <<trip, pc, balances, creditors, debtors, settlements, other,
          storage, currentTripId, selectedTripIds, uuids,
          called, returned, alerted>>

\* the page: the item of localStorage, the two variables of the script,
\* the UUIDs stored so far, and of the last call the function called, what
\* it returned and the message it alerted, "" if it alerted none
page == <<storage, currentTripId, selectedTripIds, uuids,
          called, returned, alerted>>

\* the page once the script is loaded and nothing is stored
PageLoaded ==
    /\ storage = [trips |-> <<>>]
    /\ currentTripId = Null
    /\ selectedTripIds = {}
    /\ uuids = 0
    /\ called = ""
    /\ returned = Undefined
    /\ alerted = ""

\* one invocation alone: no other one is suspended
Alone == other = Null /\ PageLoaded

Init ==
    /\ trip \in Trips
    /\ pc = "start"
    /\ balances = EmptyObject
    /\ creditors = <<>>
    /\ debtors = <<>>
    /\ settlements = <<>>
    /\ Alone

\* CalculateBalances as it would be if each split were computed in place,
\* expense.amount /= expense.participants.length
CalculateBalancesInPlace ==
    /\ pc = "start"
    /\ ~calculateBalancesRaises(trip)
    /\ pc' = "balanced"
    /\ balances' = calculateBalances(trip)
    /\ trip' = IF NothingToBalance(trip) THEN trip
               ELSE [trip EXCEPT !.expenses =
                        [i \in DOMAIN @ |->
                            [@[i] EXCEPT !.amount = NumDivInt(@, Len(trip.expenses[i].participants))]]]
    /\ UNCHANGED <<creditors, debtors, settlements, other, page>>

\* const balances = calculateBalances(trip)
CalculateBalances ==
    /\ pc = "start"
    /\ IF calculateBalancesRaises(trip)
       THEN pc' = "calculateBalances raised" /\ balances' = balances
       ELSE pc' = "balanced" /\ balances' = calculateBalances(trip)
    /\ UNCHANGED <<trip, creditors, debtors, settlements, other, page>>

\* resolveSettlements throws a TypeError: it calls forEach on a persons
\* list that is undefined
resolveSettlementsRaises(t) == ~HasPersons(t)

\* resolveSettlements(balances, trip.persons) up to the loop; without a
\* trip no caller has a persons list to pass
ResolveStart ==
    /\ pc = "balanced"
    /\ trip # Null
    /\ IF resolveSettlementsRaises(trip)
       THEN /\ pc' = "resolveSettlements raised"
            /\ UNCHANGED <<creditors, debtors, settlements>>
       ELSE /\ creditors' = SortDesc(<<>>, Classify(balances, balances.keys, TRUE))
            /\ debtors' = SortDesc(<<>>, Classify(balances, balances.keys, FALSE))
            /\ settlements' = <<>>
            /\ pc' = "loop"
    /\ UNCHANGED <<trip, balances, other, page>>

\* ResolveStep as it would be if the pass decremented the balances it was
\* given along with its working entries
ResolveStepOnBalances ==
    /\ pc = "loop"
    /\ creditors # <<>> /\ debtors # <<>>
    /\ settlements' = Record(settlements, creditors, debtors)
    /\ \E p \in {payment(creditors, debtors)} :
          /\ creditors' = Settle(creditors, p)
          /\ debtors' = Settle(debtors, p)
          /\ balances' = [balances EXCEPT
                 !.val[creditors[1].id] = NumSub(@, p),
                 !.val[debtors[1].id] = NumAdd(@, p)]
    /\ UNCHANGED <<trip, pc, other, page>>

\* one pass of the while loop; p is its const payment
ResolveStep ==
    /\ pc = "loop"
    /\ creditors # <<>> /\ debtors # <<>>
    /\ settlements' = Record(settlements, creditors, debtors)
    /\ \E p \in {payment(creditors, debtors)} :
          /\ creditors' = Settle(creditors, p)
          /\ debtors' = Settle(debtors, p)
    /\ UNCHANGED <<trip, pc, balances, other, page>>

\* the loop ends and the settlements are returned
ResolveReturn ==
    /\ pc = "loop"
    /\ creditors = <<>> \/ debtors = <<>>
    /\ pc' = "done"
    /\ UNCHANGED <<trip, balances, creditors, debtors, settlements, other, page>>

Next == CalculateBalances \/ ResolveStart \/ ResolveStep \/ ResolveReturn

Spec == Init /\ [][Next]_vars

\* the trips of the runs checked for termination: those of one expense at
\* most and the scenarios
LiveTrips ==
    {t \in GeneralTrips : Len(t.expenses) <= 1}
        \cup {SelfTestTrip, PayerExcludedTrip, ChainTrip, NearZeroTrip}

InitLive ==
    /\ trip \in LiveTrips
    /\ pc = "start"
    /\ balances = EmptyObject
    /\ creditors = <<>>
    /\ debtors = <<>>
    /\ settlements = <<>>
    /\ Alone

\* the loop runs to its end: it is synchronous and nothing suspends it
LiveSpec == InitLive /\ [][Next]_vars /\ WF_vars(ResolveStep) /\ WF_vars(ResolveReturn)

\* the engine run on a trip that breaks the data model
InitMalformed ==
    /\ trip \in MalformedTrips
    /\ pc = "start"
    /\ balances = EmptyObject
    /\ creditors = <<>>
    /\ debtors = <<>>
    /\ settlements = <<>>
    /\ Alone

SpecMalformed == InitMalformed /\ [][Next]_vars

\* the locals of the invocation that is running: its argument, its
\* position, const balances, const creditors, const debtors and
\* const settlements
Invocation ==
    [trip |-> trip, pc |-> pc, balances |-> balances,
     creditors |-> creditors, debtors |-> debtors, settlements |-> settlements]

\* an invocation that has not begun, on its own snapshot t
Called(t) ==
    [trip |-> t, pc |-> "start", balances |-> EmptyObject,
     creditors |-> <<>>, debtors |-> <<>>, settlements |-> <<>>]

\* Switch as it would be if creditors and debtors were variables of the
\* script, shared by the invocations
SwitchSharingLists ==
    /\ other # Null
    /\ other' = Invocation
    /\ trip' = other.trip
    /\ pc' = other.pc
    /\ balances' = other.balances
    /\ settlements' = other.settlements
    /\ UNCHANGED <<creditors, debtors, page>>

\* the running invocation is suspended between two of its steps and the
\* other one goes on: each has its own locals
Switch ==
    /\ other # Null
    /\ other' = Invocation
    /\ trip' = other.trip
    /\ pc' = other.pc
    /\ balances' = other.balances
    /\ creditors' = other.creditors
    /\ debtors' = other.debtors
    /\ settlements' = other.settlements
    /\ UNCHANGED page

\* the snapshots of the interleaved invocations
ConcurrentTrips ==
    {t \in GeneralTrips : t.expenses = <<>>}
        \cup {SelfTestTrip, PayerExcludedTrip, ChainTrip, NearZeroTrip}

InitConcurrent ==
    /\ trip \in ConcurrentTrips
    /\ pc = "start"
    /\ balances = EmptyObject
    /\ creditors = <<>>
    /\ debtors = <<>>
    /\ settlements = <<>>
    /\ other \in {Called(t) : t \in ConcurrentTrips}
    /\ PageLoaded

NextConcurrent ==
    \/ CalculateBalances
    \/ ResolveStart
    \/ ResolveStep
    \/ ResolveReturn
    \/ Switch

\* two invocations whose steps interleave in any way
SpecConcurrent == InitConcurrent /\ [][NextConcurrent]_vars

----------------------------------------------------------------------------
(* The store: the trips kept in localStorage and the functions that change *)
(* them.  A string is the sequence of its characters; an id is a UUID.     *)

\* String.prototype.toLowerCase on one character
LowerCase(c) == CASE c = "A" -> "a" [] c = "B" -> "b" [] OTHER -> c

toLowerCase(s) == [i \in DOMAIN s |-> LowerCase(s[i])]

RECURSIVE trimStart(_)
trimStart(s) == IF s # <<>> /\ Head(s) = " " THEN trimStart(Tail(s)) ELSE s

RECURSIVE trimEnd(_)
trimEnd(s) ==
    IF s # <<>> /\ s[Len(s)] = " " THEN trimEnd(SubSeq(s, 1, Len(s) - 1)) ELSE s

\* String.prototype.trim
trim(s) == trimEnd(trimStart(s))

\* !name || name.trim() === ''
Blank(s) == s = <<>> \/ trim(s) = <<>>

\* a string passed where a number is expected, such as the value of an
\* input element
Text(s) == [k |-> "string", chars |-> s]

IsText(x) == x # Null /\ x.k = "string"

DigitValue(c) == CASE c = "0" -> 0 [] c = "5" -> 5

IsDigit(c) == c \in {"0", "5"}

RECURSIVE LeadingDigits(_)
\* the number of digits a string begins with
LeadingDigits(s) ==
    IF s # <<>> /\ IsDigit(Head(s)) THEN 1 + LeadingDigits(Tail(s)) ELSE 0

RECURSIVE DecimalValue(_, _)
\* the value of the digits of s after the digits of value acc
DecimalValue(acc, s) ==
    IF s = <<>> THEN acc ELSE DecimalValue(10 * acc + DigitValue(Head(s)), Tail(s))

\* the number the longest prefix of s that is an integer literal denotes,
\* NaN if there is none
PrefixNumber(s) ==
    LET negative == s # <<>> /\ Head(s) = "-"
        body == IF negative THEN Tail(s) ELSE s
        n == LeadingDigits(body)
        value == DecimalValue(0, SubSeq(body, 1, n))
    IN  IF n = 0 THEN NaN ELSE FromInt(IF negative THEN 0 - value ELSE value)

\* parseFloat(x): a number is turned into its shortest decimal string and
\* read back, a string is read up to its first character that fits no
\* number
parseFloat(x) ==
    IF x = Null THEN NaN
    ELSE IF IsText(x) THEN PrefixNumber(x.chars)
    ELSE x

\* ToNumber(x), the operand of a comparison with a number: the whole
\* string must be a number, the empty string is 0, null is 0
ToNumber(x) ==
    IF x = Null THEN Zero
    ELSE IF ~IsText(x) THEN x
    ELSE IF x.chars = <<>> THEN Zero
    ELSE LET negative == Head(x.chars) = "-"
             body == IF negative THEN Tail(x.chars) ELSE x.chars
         IN  IF body # <<>> /\ LeadingDigits(body) = Len(body)
             THEN PrefixNumber(x.chars) ELSE NaN

\* !x: null, 0, NaN and the empty string are falsy
Falsy(x) ==
    \/ x = Null
    \/ IsText(x) /\ x.chars = <<>>
    \/ ~IsText(x) /\ (x = Zero \/ x = NaN)

\* x <= 0
AtMostZero(x) == LET n == ToNumber(x) IN NumLess(n, Zero) \/ n = Zero

\* JSON.parse(JSON.stringify(x)) of a number or null: NaN and Infinity are
\* written as null
JsonNumber(x) == IF x = Null THEN Null ELSE IF IsFin(x) THEN x ELSE Null

\* JSON.parse(JSON.stringify(data)): what loadData returns once data is saved
Json(data) ==
    [trips |-> [i \in DOMAIN data.trips |->
        [data.trips[i] EXCEPT
            !.budget = JsonNumber(@),
            !.expenses = [j \in DOMAIN @ |-> [@[j] EXCEPT !.amount = JsonNumber(@)]]]]]

\* the UUIDs stored in all, and the trips stored at one time
MaxUuids == 5

MaxTrips == 2

\* the n-th UUID that generateUUID returns; it is random, so no two calls
\* return the same one
UUID(n) == [uuid |-> n]

JsTrue == [boolean |-> TRUE]

JsFalse == [boolean |-> FALSE]

\* the call did not return: it threw a TypeError
TypeError == [thrown |-> "TypeError"]

\* a string that is the id of nothing
NoSuchId == UUID(0)

\* generateUUID(); uuids counts the UUIDs stored so far, one that is
\* dropped because saveData fails is held nowhere
generateUUID == UUID(uuids + 1)

\* Date.now(): the model counts the instants as it counts the UUIDs
now == uuids + 1

\* loadData(): the parsed item, { trips: [] } when nothing is stored
loadData == storage

\* saveData as it would be if setItem wrote the item before it threw
saveDataThenThrow(data, ok) == Json(data)

\* the item of localStorage after saveData(data), which returns ok
saveData(data, ok) == IF ok THEN Json(data) ELSE storage

\* data.trips.find(t => t.id === tripId), as an index; 0 when undefined
FindTrip(data, tripId) ==
    IF \E i \in DOMAIN data.trips : data.trips[i].id = tripId
    THEN CHOOSE i \in DOMAIN data.trips : data.trips[i].id = tripId
    ELSE 0

\* trip.expenses.find(e => e.id === expenseId), as an index
FindExpense(t, expenseId) ==
    IF \E j \in DOMAIN t.expenses : t.expenses[j].id = expenseId
    THEN CHOOSE j \in DOMAIN t.expenses : t.expenses[j].id = expenseId
    ELSE 0

\* array.includes(id)
Includes(array, id) == \E i \in DOMAIN array : array[i] = id

\* the stored trips' ids
TripIds == {storage.trips[i].id : i \in DOMAIN storage.trips}

\* renderTripDetails(tripId) throws a TypeError: renderExpensesList calls
\* toFixed on an amount that is null
renderTripDetailsRaises(data, tripId) ==
    /\ tripId # Null
    /\ FindTrip(data, tripId) # 0
    /\ \E j \in DOMAIN data.trips[FindTrip(data, tripId)].expenses :
           data.trips[FindTrip(data, tripId)].expenses[j].amount = Null

\* the message of the alert in saveData's catch
SaveFailed == "Failed to save data. Please check your browser storage settings."

\* alert(message); return value; before saveData is called
Refuses(value, message) ==
    /\ returned' = value
    /\ alerted' = message
    /\ UNCHANGED <<storage, currentTripId, selectedTripIds, uuids>>

\* if (saveData(data)) { renderTripDetails(tripId); return value; }
\* return refusal; setItem throws or does not, and data holds generated
\* new UUIDs
SavesAndRenders(data, tripId, value, refusal, generated) ==
    \E ok \in BOOLEAN :
        /\ storage' = saveData(data, ok)
        /\ uuids' = IF ok THEN uuids + generated ELSE uuids
        /\ alerted' = IF ok THEN "" ELSE SaveFailed
        /\ returned' = IF ~ok THEN refusal
                       ELSE IF renderTripDetailsRaises(Json(data), tripId) THEN TypeError
                       ELSE value
        /\ UNCHANGED <<currentTripId, selectedTripIds>>

\* ------------------------------------------------------------ trips

createTrip(name, budget) ==
    /\ called' = "createTrip"
    /\ IF Blank(name) THEN Refuses(Null, "Trip name is required")
       ELSE /\ uuids < MaxUuids /\ Len(loadData.trips) < MaxTrips
            /\ LET data == loadData
                   newTrip == [id |-> generateUUID,
                               name |-> trim(name),
                               budget |-> IF Falsy(budget) THEN Null ELSE parseFloat(budget),
                               persons |-> <<>>,
                               expenses |-> <<>>]
                   pushed == [data EXCEPT !.trips = Append(@, newTrip)]
               IN  \E ok \in BOOLEAN :
                       /\ storage' = saveData(pushed, ok)
                       /\ alerted' = IF ok THEN "" ELSE SaveFailed
                       /\ uuids' = IF ok THEN uuids + 1 ELSE uuids
                       /\ IF ok
                          THEN /\ currentTripId' = newTrip.id
                               /\ selectedTripIds' = {}
                               /\ returned' = newTrip
                          ELSE /\ UNCHANGED <<currentTripId, selectedTripIds>>
                               /\ returned' = Null

\* deleteTrip as it would be if it left the id among the selected ones
deleteTripKeepingSelection(id) ==
    /\ called' = "deleteTrip"
    /\ LET data == loadData
           filtered == [data EXCEPT !.trips = SelectSeq(@, LAMBDA t : t.id # id)]
       IN  \E ok \in BOOLEAN :
               /\ storage' = saveData(filtered, ok)
               /\ alerted' = IF ok THEN "" ELSE SaveFailed
               /\ returned' = Undefined
               /\ currentTripId' = IF ok /\ currentTripId = id THEN Null ELSE currentTripId
               /\ UNCHANGED <<selectedTripIds, uuids>>

deleteTrip(id) ==
    /\ called' = "deleteTrip"
    /\ LET data == loadData
           filtered == [data EXCEPT !.trips = SelectSeq(@, LAMBDA t : t.id # id)]
       IN  \E ok \in BOOLEAN :
               /\ storage' = saveData(filtered, ok)
               /\ alerted' = IF ok THEN "" ELSE SaveFailed
               /\ returned' = Undefined
               /\ IF ok
                  THEN /\ currentTripId' = IF currentTripId = id THEN Null ELSE currentTripId
                       /\ selectedTripIds' = selectedTripIds \ {id}
                  ELSE UNCHANGED <<currentTripId, selectedTripIds>>
               /\ UNCHANGED uuids

\* ids is the set of the elements of the array passed; the user confirms
\* or does not
bulkDeleteTrips(ids) ==
    /\ called' = "bulkDeleteTrips"
    /\ IF ids = {} THEN Refuses(Undefined, "")
       ELSE \E confirmed \in BOOLEAN :
           IF ~confirmed THEN Refuses(Undefined, "")
           ELSE LET data == loadData
                    filtered == [data EXCEPT !.trips =
                                    SelectSeq(@, LAMBDA t : t.id \notin ids)]
                IN  \E ok \in BOOLEAN :
                        /\ storage' = saveData(filtered, ok)
                        /\ alerted' = IF ok THEN "" ELSE SaveFailed
                        /\ returned' = Undefined
                        /\ IF ok
                           THEN /\ currentTripId' =
                                       IF currentTripId \in ids THEN Null ELSE currentTripId
                                /\ selectedTripIds' = {}
                           ELSE UNCHANGED <<currentTripId, selectedTripIds>>
                        /\ UNCHANGED uuids

selectTrip(id) ==
    /\ called' = "selectTrip"
    /\ currentTripId' = id
    /\ selectedTripIds' = {}
    /\ returned' = IF renderTripDetailsRaises(loadData, id) THEN TypeError ELSE Undefined
    /\ alerted' = ""
    /\ UNCHANGED <<storage, uuids>>

\* the change listener of a trip's checkbox in the list
checkTrip(id, checked) ==
    /\ called' = "checkTrip"
    /\ selectedTripIds' = IF checked THEN selectedTripIds \cup {id} ELSE selectedTripIds \ {id}
    /\ returned' = Undefined
    /\ alerted' = ""
    /\ UNCHANGED <<storage, currentTripId, uuids>>

\* the change listener of the checkbox that selects all trips
selectAllTrips(checked) ==
    /\ called' = "selectAllTrips"
    /\ selectedTripIds' =
           IF checked
           THEN selectedTripIds \cup {loadData.trips[i].id : i \in DOMAIN loadData.trips}
           ELSE {}
    /\ returned' = Undefined
    /\ alerted' = ""
    /\ UNCHANGED <<storage, currentTripId, uuids>>

\* ---------------------------------------------------------- persons

\* SameName as it would be if the names were compared as they are written
SameNameExactly(stored, name) == stored = trim(name)

\* p.name.toLowerCase() === name.trim().toLowerCase()
SameName(stored, name) == toLowerCase(stored) = toLowerCase(trim(name))

addPersonToTrip(tripId, name) ==
    /\ called' = "addPersonToTrip"
    /\ LET data == loadData
           i == FindTrip(data, tripId)
       IN  IF Blank(name) THEN Refuses(Null, "Person name is required")
           ELSE IF i = 0 THEN Refuses(Null, "Trip not found")
           ELSE IF \E j \in DOMAIN data.trips[i].persons :
                       SameName(data.trips[i].persons[j].name, name)
           THEN Refuses(Null, "A person with this name already exists in this trip")
           ELSE /\ uuids < MaxUuids
                /\ LET person == [id |-> generateUUID, name |-> trim(name)]
                       pushed == [data EXCEPT !.trips[i].persons = Append(@, person)]
                   IN  SavesAndRenders(pushed, tripId, person, Null, 1)

\* expense.paidBy === personId || expense.participants.includes(personId)
IsUsedIn(expense, personId) ==
    expense.paidBy = personId \/ Includes(expense.participants, personId)

\* IsUsedInExpense as it would be if only the payers were looked at
IsPayerOfExpense(t, personId) ==
    \E j \in DOMAIN t.expenses : t.expenses[j].paidBy = personId

\* trip.expenses.some(...)
IsUsedInExpense(t, personId) ==
    \E j \in DOMAIN t.expenses : IsUsedIn(t.expenses[j], personId)

deletePerson(tripId, personId) ==
    /\ called' = "deletePerson"
    /\ LET data == loadData
           i == FindTrip(data, tripId)
       IN  IF i = 0 THEN Refuses(JsFalse, "Trip not found")
           ELSE IF IsUsedInExpense(data.trips[i], personId)
           THEN Refuses(JsFalse,
                    "Cannot delete person. They are involved in one or more expenses.")
           ELSE LET filtered == [data EXCEPT !.trips[i].persons =
                                    SelectSeq(@, LAMBDA p : p.id # personId)]
                IN  SavesAndRenders(filtered, tripId, JsTrue, JsFalse, 0)

\* --------------------------------------------------------- expenses

\* the four validations of expenseData, in order: the message of the first
\* that fails, "" if none does
Invalid(expenseData) ==
    IF Blank(expenseData.title) THEN "Expense title is required"
    ELSE IF Falsy(expenseData.amount) \/ AtMostZero(expenseData.amount)
    THEN "Expense amount must be greater than 0"
    ELSE IF expenseData.paidBy = Null THEN "Please select who paid for this expense"
    ELSE IF expenseData.participants = <<>>
    THEN "Please select at least one participant"
    ELSE ""

\* what the user can answer: confirm is called only if the payer is not
\* among the participants
Answers(expenseData) ==
    IF Includes(expenseData.participants, expenseData.paidBy) THEN {FALSE} ELSE BOOLEAN

\* the participants array once the payer is pushed, if the user confirms
WithPayer(expenseData, confirmed) ==
    IF confirmed THEN Append(expenseData.participants, expenseData.paidBy)
    ELSE expenseData.participants

addExpense(tripId, expenseData) ==
    /\ called' = "addExpense"
    /\ LET data == loadData
           i == FindTrip(data, tripId)
       IN  IF Invalid(expenseData) # "" THEN Refuses(Null, Invalid(expenseData))
           ELSE IF i = 0 THEN Refuses(Null, "Trip not found")
           ELSE IF Len(data.trips[i].persons) < 2
           THEN Refuses(Null,
                    "You need at least 2 persons in the trip before adding expenses")
           ELSE /\ uuids < MaxUuids
                /\ \E confirmed \in Answers(expenseData) :
                    LET expense == [id |-> generateUUID,
                                    title |-> trim(expenseData.title),
                                    amount |-> parseFloat(expenseData.amount),
                                    paidBy |-> expenseData.paidBy,
                                    participants |-> WithPayer(expenseData, confirmed),
                                    createdAt |-> now]
                        pushed == [data EXCEPT !.trips[i].expenses = Append(@, expense)]
                    IN  SavesAndRenders(pushed, tripId, expense, Null, 1)

\* updateExpense as it would be if it replaced the expense by a new object
\* of its id, the four fields and the instant of the update
updateExpenseByReplacing(tripId, expenseId, expenseData) ==
    /\ called' = "updateExpense"
    /\ LET data == loadData
           i == FindTrip(data, tripId)
           j == IF i = 0 THEN 0 ELSE FindExpense(data.trips[i], expenseId)
       IN  IF Invalid(expenseData) # "" THEN Refuses(Null, Invalid(expenseData))
           ELSE IF i = 0 THEN Refuses(Null, "Trip not found")
           ELSE IF j = 0 THEN Refuses(Null, "Expense not found")
           ELSE \E confirmed \in Answers(expenseData) :
               LET assigned == [data EXCEPT !.trips[i].expenses[j] =
                       [id |-> @.id,
                        title |-> trim(expenseData.title),
                        amount |-> parseFloat(expenseData.amount),
                        paidBy |-> expenseData.paidBy,
                        participants |-> WithPayer(expenseData, confirmed),
                        createdAt |-> now]]
               IN  SavesAndRenders(assigned, tripId,
                                   assigned.trips[i].expenses[j], Null, 0)

updateExpense(tripId, expenseId, expenseData) ==
    /\ called' = "updateExpense"
    /\ LET data == loadData
           i == FindTrip(data, tripId)
           j == IF i = 0 THEN 0 ELSE FindExpense(data.trips[i], expenseId)
       IN  IF Invalid(expenseData) # "" THEN Refuses(Null, Invalid(expenseData))
           ELSE IF i = 0 THEN Refuses(Null, "Trip not found")
           ELSE IF j = 0 THEN Refuses(Null, "Expense not found")
           ELSE \E confirmed \in Answers(expenseData) :
               LET assigned == [data EXCEPT !.trips[i].expenses[j] =
                       [@ EXCEPT !.title = trim(expenseData.title),
                                 !.amount = parseFloat(expenseData.amount),
                                 !.paidBy = expenseData.paidBy,
                                 !.participants = WithPayer(expenseData, confirmed)]]
               IN  SavesAndRenders(assigned, tripId,
                                   assigned.trips[i].expenses[j], Null, 0)

deleteExpense(tripId, expenseId) ==
    /\ called' = "deleteExpense"
    /\ LET data == loadData
           i == FindTrip(data, tripId)
           j == IF i = 0 THEN 0 ELSE FindExpense(data.trips[i], expenseId)
       IN  IF i = 0 THEN Refuses(JsFalse, "Trip not found")
           ELSE IF j = 0 THEN Refuses(JsFalse, "Expense not found")
           ELSE LET filtered == [data EXCEPT !.trips[i].expenses =
                                    SelectSeq(@, LAMBDA e : e.id # expenseId)]
                IN  SavesAndRenders(filtered, tripId, JsTrue, JsFalse, 0)

\* ------------------------------------------------- the calls made

TripNames == {<<"a", " ">>, <<" ">>, <<>>}

Budgets == {Text(<<>>), Text(<<"x">>)}

PersonNames == {<<"a">>, <<"A", " ">>, <<"b">>, <<" ">>}

Amounts ==
    {Cents(5), Zero, NumNeg(Cents(5)), NaN, Infinity, Null,
     Text(<<>>), Text(<<"-", "5">>), Text(<<"-", "5", "x">>)}

\* the ids a caller passes for a trip: those of the stored trips and one
\* of no trip
TripArgs == TripIds \cup {NoSuchId}

\* the ids a caller passes for a person of trip tripId: those of its
\* persons and one of no person
PersonArgs(tripId) ==
    LET i == FindTrip(loadData, tripId)
    IN  (IF i = 0 THEN {}
         ELSE {loadData.trips[i].persons[j].id : j \in DOMAIN loadData.trips[i].persons})
            \cup {NoSuchId}

\* the ids a caller passes for an expense of trip tripId
ExpenseArgs(tripId) ==
    LET i == FindTrip(loadData, tripId)
    IN  (IF i = 0 THEN {}
         ELSE {loadData.trips[i].expenses[j].id : j \in DOMAIN loadData.trips[i].expenses})
            \cup {NoSuchId}

RECURSIVE IdList(_)
\* the ids of S as an array, in the order they were generated
IdList(S) ==
    IF S = {} THEN <<>>
    ELSE LET first == CHOOSE x \in S : \A y \in S : x.uuid <= y.uuid
         IN  <<first>> \o IdList(S \ {first})

\* the arrays of participants passed: two ids at most
IdLists(ids) == {IdList(S) : S \in {T \in SUBSET ids : Cardinality(T) <= 2}}

\* the expenseData passed for trip tripId: what the form submits, a payer
\* and participants among the persons of the trip, and what differs in one
\* field from such data
ExpenseData(tripId) ==
    LET persons == PersonArgs(tripId) \ {NoSuchId}
        first == IF persons = {} THEN NoSuchId ELSE IdList(persons)[1]
        usual == [title |-> <<"a", " ">>, amount |-> Cents(5),
                  paidBy |-> first, participants |-> <<first>>]
    IN  {[usual EXCEPT !.paidBy = p, !.participants = l] :
            p \in persons, l \in IdLists(persons) \ {<<>>}}
        \cup {[usual EXCEPT !.title = t] : t \in {<<" ">>, <<>>}}
        \cup {[usual EXCEPT !.amount = a] : a \in Amounts}
        \cup {[usual EXCEPT !.paidBy = p] : p \in {NoSuchId, Null}}
        \cup {[usual EXCEPT !.participants = l] : l \in {<<NoSuchId>>, <<>>}}

\* the engine is not running
engine == <<trip, pc, balances, creditors, debtors, settlements, other>>

CreateTrip ==
    /\ \E name \in TripNames, budget \in Budgets : createTrip(name, budget)
    /\ UNCHANGED engine

DeleteTrip ==
    /\ \E id \in TripArgs : deleteTrip(id)
    /\ UNCHANGED engine

BulkDeleteTrips ==
    /\ \E ids \in SUBSET TripArgs : bulkDeleteTrips(ids)
    /\ UNCHANGED engine

\* a click on the name of a listed trip
SelectTrip ==
    /\ \E id \in TripIds : selectTrip(id)
    /\ UNCHANGED engine

CheckTrip ==
    /\ \E id \in TripIds, checked \in BOOLEAN : checkTrip(id, checked)
    /\ UNCHANGED engine

SelectAllTrips ==
    /\ \E checked \in BOOLEAN : selectAllTrips(checked)
    /\ UNCHANGED engine

AddPersonToTrip ==
    /\ \E tripId \in TripArgs, name \in PersonNames : addPersonToTrip(tripId, name)
    /\ UNCHANGED engine

DeletePerson ==
    /\ \E tripId \in TripArgs :
           \E personId \in PersonArgs(tripId) : deletePerson(tripId, personId)
    /\ UNCHANGED engine

AddExpense ==
    /\ \E tripId \in TripArgs :
           \E expenseData \in ExpenseData(tripId) : addExpense(tripId, expenseData)
    /\ UNCHANGED engine

UpdateExpense ==
    /\ \E tripId \in TripArgs :
           \E expenseId \in ExpenseArgs(tripId), expenseData \in ExpenseData(tripId) :
               updateExpense(tripId, expenseId, expenseData)
    /\ UNCHANGED engine

DeleteExpense ==
    /\ \E tripId \in TripArgs :
           \E expenseId \in ExpenseArgs(tripId) : deleteExpense(tripId, expenseId)
    /\ UNCHANGED engine

InitStore ==
    /\ trip = Null
    /\ pc = "idle"
    /\ balances = EmptyObject
    /\ creditors = <<>>
    /\ debtors = <<>>
    /\ settlements = <<>>
    /\ other = Null
    /\ PageLoaded

NextStore ==
    \/ CreateTrip
    \/ AddPersonToTrip
    \/ DeletePerson
    \/ AddExpense
    \/ UpdateExpense
    \/ DeleteExpense

\* any sequence of calls of the functions that add to the stored data or
\* change the persons and the expenses of a trip
SpecStore == InitStore /\ [][NextStore]_vars

\* the UUIDs stored in all when every function of the page is called
MaxPageUuids == 4

NextPage ==
    \/ CreateTrip /\ uuids' <= MaxPageUuids
    \/ DeleteTrip
    \/ BulkDeleteTrips
    \/ SelectTrip
    \/ CheckTrip
    \/ SelectAllTrips
    \/ AddPersonToTrip /\ uuids' <= MaxPageUuids
    \/ DeletePerson
    \/ AddExpense /\ uuids' <= MaxPageUuids
    \/ UpdateExpense
    \/ DeleteExpense

\* the page in use in one tab: any sequence of calls and of clicks in the
\* list of trips
SpecPage == InitStore /\ [][NextPage]_vars

----------------------------------------------------------------------------
(* What the callers of the engine compute from its results.                *)

RECURSIVE SumValues(_, _)
\* Object.values(balances).reduce((a, b) => a + b, 0)
SumValues(b, keys) ==
    IF keys = <<>> THEN Zero
    ELSE NumAdd(SumValues(b, SubSeq(keys, 1, Len(keys) - 1)), b.val[keys[Len(keys)]])

----------------------------------------------------------------------------
(* Vocabulary of the properties.                                           *)

\* a trip that keeps the invariants of the data model: every expense has
\* participants (amounts are positive and ids are persons in every trip)
ValidTrip(t) == \A i \in DOMAIN t.expenses : t.expenses[i].participants # <<>>

\* |x| <= 0.01
WithinEpsilon(x) == IsFin(x) /\ ~NumLess(Epsilon, NumAbs(x))

\* the whole number of cents nearest to a finite x
ToCents(x) == LET r == MathRound(NumMulInt(x, 100)) IN r.s * r.m[1]

Elements(seq) == {seq[i] : i \in DOMAIN seq}

Computed == pc # "start"

\* the trip without its i-th expense
WithoutExpense(t, i) ==
    [persons |-> t.persons,
     expenses |-> SubSeq(t.expenses, 1, i - 1) \o SubSeq(t.expenses, i + 1, Len(t.expenses))]

----------------------------------------------------------------------------
(* C1: for every trip that keeps the data-model invariants, the sum of     *)
(* the values calculateBalances returns is within 0.01 of 0.               *)
C1_ZeroSum ==
    (Computed /\ ValidTrip(trip))
        => WithinEpsilon(SumValues(balances, balances.keys))

(* C2: once every settlement returned by resolveSettlements is applied,    *)
(* every person's remaining balance is within 0.01 of 0.  Balances and     *)
(* settlement amounts are whole cents, so the remainder is counted in      *)
(* cents: at most one cent either way.                                     *)
RECURSIVE Discharged(_, _)
\* the cents by which the settlements ss move the balance of person p to 0
Discharged(ss, p) ==
    IF ss = <<>> THEN 0
    ELSE Discharged(Tail(ss), p)
         + (IF Head(ss).from = p THEN ToCents(Head(ss).amount) ELSE 0)
         - (IF Head(ss).to = p THEN ToCents(Head(ss).amount) ELSE 0)

Remaining(p) == ToCents(balances.val[p]) + Discharged(settlements, p)

C2_Discharged ==
    (pc = "done" /\ ValidTrip(trip))
        => \A p \in DOMAIN balances.val : Remaining(p) \in {-1, 0, 1}

(* C3: every settlement resolveSettlements emits has an amount strictly    *)
(* greater than 0.01.                                                      *)
C3_AboveThreshold ==
    \A i \in DOMAIN settlements : NumLess(Epsilon, settlements[i].amount)

(* C4: every settlement goes from a debtor (input balance < -0.01) to a    *)
(* creditor (input balance > 0.01), so from and to differ; the balances    *)
(* A = -50, B = -30, C = +80 give exactly A -> C 50 and B -> C 30.         *)
C4_DebtorToCreditor ==
    /\ \A i \in DOMAIN settlements :
          /\ NumLess(Lookup(balances, settlements[i].from), NumNeg(Epsilon))
          /\ NumLess(Epsilon, Lookup(balances, settlements[i].to))
          /\ settlements[i].from # settlements[i].to
    /\ (pc = "done" /\ trip = ChainTrip)
          => /\ balances.val = <<FromInt(-50), FromInt(-30), FromInt(80)>>
             /\ Len(settlements) = 2
             /\ Elements(settlements) =
                    {[from |-> 1, to |-> 3, amount |-> FromInt(50)],
                     [from |-> 2, to |-> 3, amount |-> FromInt(30)]}

C4_Witness ==
    /\ pc = "done"
    /\ trip = ChainTrip
    /\ Len(settlements) = 2

(* C5: the balance of each person p is round2 of (the amounts p paid       *)
(* minus p's shares amount / |participants|), the difference taken as the  *)
(* decimal number it is.  Sixtieths of a cent make every share a whole     *)
(* number.  round2 is read with either tie rule in question: a tie going   *)
(* up, as Math.round does, or away from zero.                              *)
Sixtieths == 3 * 4 * 5

RECURSIVE NetSixtieths(_, _)
\* 60 * 100 * (what p paid minus what p owes) over the expenses es
NetSixtieths(es, p) ==
    IF es = <<>> THEN 0
    ELSE LET e == Head(es)
             c == ToCents(e.amount)
         IN  NetSixtieths(Tail(es), p)
             + (IF e.paidBy = p THEN Sixtieths * c ELSE 0)
             - (IF p \in Elements(e.participants)
                THEN (Sixtieths * c) \div Len(e.participants) ELSE 0)

\* n sixtieths rounded to the nearest whole number, a tie going up
RoundUp(n) == (2 * n + Sixtieths) \div (2 * Sixtieths)

\* n sixtieths rounded to the nearest whole number, a tie going away from 0
RoundAway(n) == IF n < 0 THEN 0 - RoundUp(0 - n) ELSE RoundUp(n)

C5_NetOfCreditsAndShares ==
    (Computed /\ ValidTrip(trip))
        => \A p \in Elements(trip.persons) :
              LET net == NetSixtieths(trip.expenses, p)
              IN  ToCents(balances.val[p]) \in {RoundUp(net), RoundAway(net)}

(* C6: on the trip of the self test, calculateBalances returns A = +100,   *)
(* B = 0, C = -100 and resolveSettlements returns the single settlement    *)
(* C -> A of 100.                                                          *)
C6_SelfTest ==
    (pc = "done" /\ trip = SelfTestTrip)
        => /\ balances.val = <<FromInt(100), FromInt(0), FromInt(-100)>>
           /\ settlements = <<[from |-> 3, to |-> 1, amount |-> FromInt(100)]>>

(* C7: a payer who is not among the participants is credited the full      *)
(* amount and debited nothing; 90 paid by X for {Y, Z} gives X = +90,      *)
(* Y = -45, Z = -45 and exactly the settlements Y -> X 45 and Z -> X 45.   *)
C7_PayerExcluded ==
    /\ (Computed /\ Len(trip.expenses) = 1
           /\ trip.expenses[1].participants # <<>>
           /\ trip.expenses[1].paidBy \notin Elements(trip.expenses[1].participants))
          => balances.val[trip.expenses[1].paidBy] = trip.expenses[1].amount
    /\ (pc = "done" /\ trip = PayerExcludedTrip)
          => /\ balances.val = <<FromInt(90), FromInt(-45), FromInt(-45)>>
             /\ Len(settlements) = 2
             /\ Elements(settlements) =
                    {[from |-> 2, to |-> 1, amount |-> FromInt(45)],
                     [from |-> 3, to |-> 1, amount |-> FromInt(45)]}

C7_Witness ==
    /\ pc = "done"
    /\ trip = PayerExcludedTrip
    /\ Len(settlements) = 2

(* C8: an expense with no participants is skipped: the balances are those  *)
(* of the same trip without that expense.                                  *)
C8_EmptyParticipantsSkipped ==
    pc = "balanced"
        => \A i \in DOMAIN trip.expenses :
              trip.expenses[i].participants = <<>>
                  => balances = calculateBalances(WithoutExpense(trip, i))

(* C9: the scaled balance Math.round is given, balance * 100.              *)
Scaled(id) == NumMulInt(RawBalances(trip).val[id], 100)

Half == Fin(1, <<0, Limb \div 2, 0, 0>>)

\* y lies exactly half-way between two whole numbers
IsTie(y) == IsFin(y) /\ <<0, y.m[2], y.m[3], y.m[4]>> = Half.m

(* C9 as claimed: a tie is rounded away from zero whether the balance is   *)
(* positive or negative (+0.025 gives +0.03, -0.025 gives -0.03).          *)
C9_HalfAwayFromZero ==
    pc = "balanced"
        => \A id \in DOMAIN balances.val :
              IsTie(Scaled(id))
                  => ToCents(balances.val[id]) = Scaled(id).s * (Scaled(id).m[1] + 1)

(* C9 as amended: every balance is rounded to the nearest cent and a tie   *)
(* goes up, toward +Infinity, whether the balance is positive or negative  *)
(* (+0.025 gives +0.03, -0.025 gives -0.02): the cents c returned satisfy  *)
(* c - 1/2 <= balance * 100 < c + 1/2.                                     *)
C9_HalfUp ==
    pc = "balanced"
        => LET raw == RawBalances(trip)
           IN  \A id \in DOMAIN balances.val :
                  LET c == FromInt(ToCents(balances.val[id]))
                      scaled == NumMulInt(raw.val[id], 100)
                  IN  /\ ~NumLess(scaled, NumSub(c, Half))
                      /\ NumLess(scaled, NumAdd(c, Half))

\* a negative balance exactly half-way between two cents has been rounded
C9_Witness ==
    /\ pc = "balanced"
    /\ \E id \in DOMAIN balances.val :
          /\ IsTie(Scaled(id))
          /\ Scaled(id).s = -1
          /\ Scaled(id).m[1] = 2
          /\ balances.val[id] = Cents(-2)

(* C10 as claimed: in every pass of the loop the creditor and the debtor   *)
(* at index 0 have the largest remaining amount of their list.             *)
HeadIsLargest(list) ==
    \A i \in DOMAIN list : ~NumLess(list[1].amount, list[i].amount)

C10_HeadsAreLargest ==
    (pc = "loop" /\ creditors # <<>> /\ debtors # <<>>)
        => HeadIsLargest(creditors) /\ HeadIsLargest(debtors)

(* C10 as amended: in every pass of the loop the parties matched are the   *)
(* entries at index 0; each list is in descending order of the ORIGINAL    *)
(* amounts (the absolute input balances) and every entry behind index 0    *)
(* still holds its original amount, so index 0 is the party whose original *)
(* amount was largest; the amount it has left may be less than another's.  *)
Original(entry) == NumAbs(balances.val[entry.id])

OriginalOrder(list) ==
    /\ \A i \in DOMAIN list : i > 1 => list[i].amount = Original(list[i])
    /\ \A i, j \in DOMAIN list :
          i < j => ~NumLess(Original(list[i]), Original(list[j]))
    /\ list # <<>> => ~NumLess(Original(list[1]), list[1].amount)

C10_HeadsAreLargestOriginally ==
    pc = "loop" => OriginalOrder(creditors) /\ OriginalOrder(debtors)

\* a pass is about to match a creditor that has less left than the next one
C10_Witness ==
    /\ pc = "loop"
    /\ debtors # <<>>
    /\ Len(creditors) > 1
    /\ NumLess(creditors[1].amount, creditors[2].amount)
    /\ settlements # <<>>

(* C11: for every creditor the amounts of the settlements paid to it sum   *)
(* to at most its original balance, and for every debtor the amounts of    *)
(* the settlements it pays sum to at most the absolute value of its        *)
(* original balance.  Balances and settlement amounts are whole cents and  *)
(* the sums are taken in cents.                                            *)
RECURSIVE Received(_, _)
\* the cents the settlements ss pay to person p
Received(ss, p) ==
    IF ss = <<>> THEN 0
    ELSE Received(Tail(ss), p)
         + (IF Head(ss).to = p THEN ToCents(Head(ss).amount) ELSE 0)

RECURSIVE Paid(_, _)
\* the cents person p pays in the settlements ss
Paid(ss, p) ==
    IF ss = <<>> THEN 0
    ELSE Paid(Tail(ss), p)
         + (IF Head(ss).from = p THEN ToCents(Head(ss).amount) ELSE 0)

C11_WithinOriginalBalance ==
    \A p \in DOMAIN balances.val :
        /\ NumLess(Epsilon, balances.val[p])
              => Received(settlements, p) <= ToCents(balances.val[p])
        /\ NumLess(balances.val[p], NumNeg(Epsilon))
              => Paid(settlements, p) <= 0 - ToCents(balances.val[p])

\* a creditor has been paid by two debtors and a debtor has paid two creditors
C11_Witness ==
    /\ pc = "done"
    /\ \E i, j \in DOMAIN settlements :
          i < j /\ settlements[i].to = settlements[j].to
    /\ \E i, j \in DOMAIN settlements :
          i < j /\ settlements[i].from = settlements[j].from


(* C12: a person whose balance b has |b| <= 0.01 (a raw 0.005 that rounds  *)
(* to 0.01 included) is classified as settled: it is neither a creditor    *)
(* nor a debtor and is the from or the to of no settlement; when every     *)
(* person is in that range resolveSettlements returns the empty list.      *)
Parties(list) == {list[i].id : i \in DOMAIN list}

C12_SettledWithinEpsilon ==
    /\ \A p \in DOMAIN balances.val :
          WithinEpsilon(balances.val[p])
              => /\ p \notin Parties(creditors) \cup Parties(debtors)
                 /\ \A i \in DOMAIN settlements :
                       settlements[i].from # p /\ settlements[i].to # p
    /\ (pc = "done" /\ \A p \in DOMAIN balances.val : WithinEpsilon(balances.val[p]))
          => settlements = <<>>

\* a raw 0.005 has been rounded to 0.01 and the others have been settled
C12_Witness ==
    /\ pc = "done"
    /\ trip = NearZeroTrip
    /\ settlements = <<[from |-> 4, to |-> 3, amount |-> FromInt(50)]>>
    /\ \E p \in DOMAIN balances.val :
          /\ Scaled(p) = Half
          /\ balances.val[p] = Cents(1)


(* C13: for a trip with at least one person and no expenses,               *)
(* calculateBalances returns exactly one entry per person, every entry 0,  *)
(* and resolveSettlements returns the empty list on it.                    *)
C13_NoExpenses ==
    (Computed /\ trip.persons # <<>> /\ trip.expenses = <<>>)
        => /\ balances.keys = trip.persons
           /\ DOMAIN balances.val = Elements(trip.persons)
           /\ \A p \in Elements(trip.persons) : balances.val[p] = Zero
           /\ creditors = <<>> /\ debtors = <<>>
           /\ settlements = <<>>

\* the engine has run to its end on a trip of persons without expenses
C13_Witness ==
    /\ pc = "done"
    /\ trip.expenses = <<>>
    /\ Len(balances.keys) = NumPersons
    /\ settlements = <<>>


(* C14: calculateBalances returns the empty mapping and raises no error    *)
(* whenever the trip is absent, has no persons list or has zero persons,   *)
(* whatever expenses the trip holds.                                       *)
C14_EmptyWithoutPersons ==
    (pc # "start" /\ (trip = Null \/ ~HasPersons(trip) \/ trip.persons = <<>>))
        => /\ pc # "calculateBalances raised"
           /\ balances = EmptyObject

\* calculateBalances has returned on a trip of no persons that has an expense
C14_Witness ==
    /\ pc = "balanced"
    /\ HasPersons(trip)
    /\ trip.persons = <<>>
    /\ trip.expenses # <<>>
    /\ balances = EmptyObject


(* C15: when an expense names a payer or a participant that is no person   *)
(* of the trip, calculateBalances raises no error, the result has an entry *)
(* for that id that is the numeric net of the credits and debits applied   *)
(* to it, and the persons of the trip have the balances the reference sum  *)
(* gives them.  The net is read as in C5.                                  *)
Referenced(t) ==
    UNION {{t.expenses[i].paidBy} \cup Elements(t.expenses[i].participants) :
               i \in DOMAIN t.expenses}

DanglingIds(t) == Referenced(t) \ Elements(t.persons)

IsNetOf(b, es, id) ==
    /\ id \in DOMAIN b.val
    /\ IsFin(b.val[id])
    /\ ToCents(b.val[id]) \in {RoundUp(NetSixtieths(es, id)), RoundAway(NetSixtieths(es, id))}

C15_DanglingIdsBalanced ==
    (pc # "start" /\ HasPersons(trip) /\ trip.persons # <<>> /\ HasExpenses(trip)
        /\ ValidTrip(trip) /\ DanglingIds(trip) # {})
        => /\ pc # "calculateBalances raised"
           /\ \A id \in DanglingIds(trip) : IsNetOf(balances, trip.expenses, id)
           /\ \A p \in Elements(trip.persons) : IsNetOf(balances, trip.expenses, p)


(* C16: the result of calculateBalances does not depend on the order of    *)
(* the expenses: the trip with its expenses in the opposite order (the one *)
(* other order of a list of two) gives the same mapping.                   *)
RECURSIVE Reversed(_)
Reversed(seq) == IF seq = <<>> THEN <<>> ELSE Append(Reversed(Tail(seq)), Head(seq))

C16_OrderIndependent ==
    (pc = "balanced" /\ ValidTrip(trip))
        => calculateBalances([persons |-> trip.persons,
                              expenses |-> Reversed(trip.expenses)]) = balances


(* C17: resolveSettlements does not mutate its balances argument, which    *)
(* is after the call what calculateBalances returned, and a second call on *)
(* the same balances returns the same settlements, in the same order.      *)
C17_ResolveTwice ==
    pc = "done"
        => /\ balances = calculateBalances(trip)
           /\ resolveSettlements(balances) = settlements

\* a call has returned two settlements or more
C17_Witness ==
    /\ pc = "done"
    /\ Len(settlements) >= 2
    /\ resolveSettlements(balances) = settlements


(* C18: calculateBalances leaves the trip unchanged: trip.persons,         *)
(* trip.expenses and every field of every expense are after the call what  *)
(* they were before it.                                                    *)
C18_TripUnchanged == [][pc = "start" => trip' = trip]_vars

\* calculateBalances has returned the balances of a trip of two expenses
C18_Witness ==
    /\ pc = "balanced"
    /\ Len(trip.expenses) = 2
    /\ \A i \in DOMAIN trip.expenses : Len(trip.expenses[i].participants) >= 2
    /\ balances = calculateBalances(trip)


(* C19: the matching loop always terminates and stops exactly when the     *)
(* creditor list or the debtor list is empty: with one of them empty the   *)
(* next step is the return, otherwise it is a pass, and every pass removes *)
(* at least one party from one of the two lists.                           *)
C19_LoopTerminates ==
    /\ [][pc = "loop" =>
             IF creditors = <<>> \/ debtors = <<>>
             THEN pc' = "done"
             ELSE /\ pc' = "loop"
                  /\ Len(creditors') + Len(debtors') < Len(creditors) + Len(debtors)]_vars
    /\ (pc = "loop") ~> (pc = "done")

\* the loop has ended after three passes that each recorded a settlement
C19_Witness ==
    /\ pc = "done"
    /\ Len(settlements) = 3
    /\ creditors = <<>> \/ debtors = <<>>


(* C20: resolveSettlements never fails when it is called with an output of *)
(* calculateBalances and the persons list of the same trip (the trip has   *)
(* one), also when the balances hold an entry for an id that is no person: *)
(* it raises nothing,                                                      *)
(* no party of its working lists has an amount that is not a number, which *)
(* no pass of the loop could settle, and it returns a list of settlements  *)
(* between ids of the balances.                                            *)
IsSettlement(s) ==
    /\ s.from \in DOMAIN balances.val
    /\ s.to \in DOMAIN balances.val
    /\ IsFin(s.amount)

C20_ResolveNeverFails ==
    HasPersons(trip)
        => /\ pc # "resolveSettlements raised"
           /\ \A i \in DOMAIN creditors : IsFin(creditors[i].amount)
           /\ \A i \in DOMAIN debtors : IsFin(debtors[i].amount)
           /\ \A i \in DOMAIN settlements : IsSettlement(settlements[i])
           /\ pc = "done" => creditors = <<>> \/ debtors = <<>>

\* the settlements of balances that hold NaN for a dangling id are returned
C20_Witness ==
    /\ pc = "done"
    /\ HasPersons(trip)
    /\ \E id \in DOMAIN balances.val : id \notin Elements(trip.persons) /\ balances.val[id] = NaN
    /\ settlements # <<>>

----------------------------------------------------------------------------
\* the number of creditors (credit) or debtors of the balances resolved
GroupSize(credit) == Len(Classify(balances, balances.keys, credit))

\* C26: resolveSettlements returns at most (creditors + debtors - 1)
\* settlements when both groups are non-empty, and no ordered pair
\* (from, to) appears in two settlements
C26_FewDistinctSettlements ==
    pc \in {"loop", "done"} =>
        /\ (GroupSize(TRUE) > 0 /\ GroupSize(FALSE) > 0)
               => Len(settlements) <= GroupSize(TRUE) + GroupSize(FALSE) - 1
        /\ \A i, j \in DOMAIN settlements :
               (settlements[i].from = settlements[j].from
                    /\ settlements[i].to = settlements[j].to) => i = j

\* two creditors and two debtors are settled by exactly three settlements
C26_Witness ==
    /\ pc = "done"
    /\ GroupSize(TRUE) = 2 /\ GroupSize(FALSE) = 2
    /\ Len(settlements) = 3

----------------------------------------------------------------------------
\* what invocation inv has computed so far is what it computes when it
\* runs alone on its trip
AsWhenAlone(inv) ==
    /\ inv.pc \in {"balanced", "loop", "done"}
           => inv.balances = calculateBalances(inv.trip)
    /\ inv.pc = "loop"
           => Loop(inv.settlements, inv.creditors, inv.debtors)
                  = resolveSettlements(calculateBalances(inv.trip))
    /\ inv.pc = "done"
           => inv.settlements = resolveSettlements(calculateBalances(inv.trip))

\* C21: two invocations of calculateBalances / resolveSettlements whose
\* steps interleave in any way, each on its own snapshot, return what they
\* return when they run one after the other
C21_InterleavedAsSequential == AsWhenAlone(Invocation) /\ AsWhenAlone(other)

\* both invocations are in the middle of their loops, each with a
\* settlement recorded and parties left, on different trips
C21_Witness ==
    /\ pc = "loop" /\ other.pc = "loop"
    /\ trip # other.trip
    /\ settlements # <<>> /\ other.settlements # <<>>
    /\ creditors # <<>> /\ other.creditors # <<>>

----------------------------------------------------------------------------
\* the stored trips and their expenses
StoredTrips == {storage.trips[i] : i \in DOMAIN storage.trips}

StoredExpenses(t) == {t.expenses[j] : j \in DOMAIN t.expenses}

\* the ids of the persons of trip t
PersonsOf(t) == {t.persons[j].id : j \in DOMAIN t.persons}

\* C22: after any sequence of createTrip, addPersonToTrip, deletePerson,
\* addExpense, updateExpense and deleteExpense calls, the paidBy of every
\* stored expense and every id in its participants is the id of a person
\* of its trip
C22_ExpensesReferencePersons ==
    \A t \in StoredTrips : \A e \in StoredExpenses(t) :
        /\ e.paidBy \in PersonsOf(t)
        /\ \A k \in DOMAIN e.participants : e.participants[k] \in PersonsOf(t)

\* a stored amount is a number greater than 0
IsPositive(amount) == amount # Null /\ NumLess(Zero, amount)

\* C23: after any sequence of addExpense and updateExpense calls, with any
\* arguments, every stored expense has amount > 0 and a non-empty
\* participants list
C23_AmountsPositive ==
    \A t \in StoredTrips : \A e \in StoredExpenses(t) :
        IsPositive(e.amount) /\ e.participants # <<>>

\* C30: after any sequence of addPersonToTrip, deletePerson, addExpense,
\* updateExpense and deleteExpense calls, every trip that holds an expense
\* has at least 2 persons
C30_TwoPersonsPerExpense ==
    \A t \in StoredTrips : t.expenses # <<>> => Len(t.persons) >= 2

\* no two persons of trip t have names that are equal ignoring case
NamesDistinct(t) ==
    \A j, k \in DOMAIN t.persons :
        j # k => toLowerCase(t.persons[j].name) # toLowerCase(t.persons[k].name)

\* name, trimmed, is the name of a person of the stored trip tripId,
\* ignoring case
MatchesPerson(tripId, name) ==
    /\ ~Blank(name)
    /\ FindTrip(storage, tripId) # 0
    /\ \E j \in DOMAIN storage.trips[FindTrip(storage, tripId)].persons :
           toLowerCase(storage.trips[FindTrip(storage, tripId)].persons[j].name)
               = toLowerCase(trim(name))

\* C24: no two persons of a stored trip have names that are equal ignoring
\* case, and addPersonToTrip with a name that, trimmed, matches the name of
\* a person of the trip ignoring case returns null and leaves the stored
\* data, the persons list with it, as it was
C24_NamesDistinct ==
    /\ [](\A t \in StoredTrips : NamesDistinct(t))
    /\ [][called' = "addPersonToTrip" =>
              \A tripId \in TripArgs, name \in PersonNames :
                  (MatchesPerson(tripId, name) /\ addPersonToTrip(tripId, name))
                      => (returned' = Null /\ storage' = storage)]_vars

\* addPersonToTrip has just refused the name of a trip that holds two
\* persons
C24_Witness ==
    /\ called = "addPersonToTrip"
    /\ alerted = "A person with this name already exists in this trip"
    /\ returned = Null
    /\ \E t \in StoredTrips : Len(t.persons) = 2

\* the stored trip of id tripId holds an expense that personId paid or takes
\* part in
Involved(tripId, personId) ==
    \E t \in StoredTrips :
        /\ t.id = tripId
        /\ \E e \in StoredExpenses(t) :
               \/ e.paidBy = personId
               \/ \E k \in DOMAIN e.participants : e.participants[k] = personId

\* personId is a person of the stored trip of id tripId
IsPersonOf(tripId, personId) ==
    \E t \in StoredTrips : t.id = tripId /\ personId \in PersonsOf(t)

\* the stored data with the person personId taken out of the persons of
\* the trip tripId, and nothing else changed
WithoutPerson(tripId, personId) ==
    [trips |->
        [i \in DOMAIN storage.trips |->
            IF storage.trips[i].id = tripId
            THEN [storage.trips[i] EXCEPT !.persons =
                     SelectSeq(@, LAMBDA p : p.id # personId)]
            ELSE storage.trips[i]]]

\* what C25 says of a call deletePerson(tripId, personId); saved tells
\* whether the removal is claimed of every call or of those whose save
\* succeeds
DeletePersonAsClaimed(tripId, personId, saved) ==
    /\ Involved(tripId, personId) => (returned' = JsFalse /\ storage' = storage)
    /\ (~Involved(tripId, personId) /\ IsPersonOf(tripId, personId) /\ saved)
           => storage' = WithoutPerson(tripId, personId)

C27_FailedSaveHasNoEffect ==
    [][alerted' = SaveFailed =>
          /\ storage' = storage
          /\ currentTripId' = currentTripId
          /\ selectedTripIds' = selectedTripIds
          /\ called' \in {"createTrip", "addPersonToTrip", "addExpense", "updateExpense"}
                 => returned' = Null
          /\ called' \in {"deletePerson", "deleteExpense"} => returned' = JsFalse]_vars

\* createTrip has just failed to save while a trip is open and a trip is
\* checked in the list
C27_Witness ==
    /\ called = "createTrip"
    /\ alerted = SaveFailed
    /\ returned = Null
    /\ currentTripId \in TripIds
    /\ selectedTripIds # {}

\* the stored data after the step are those before it, but for the title,
\* the amount, paidBy and the participants of the expense of id expenseId
OnlyTheFourFieldsOf(expenseId) ==
    /\ Len(storage'.trips) = Len(storage.trips)
    /\ \A i \in DOMAIN storage.trips :
           /\ [storage'.trips[i] EXCEPT !.expenses = <<>>]
                  = [storage.trips[i] EXCEPT !.expenses = <<>>]
           /\ Len(storage'.trips[i].expenses) = Len(storage.trips[i].expenses)
           /\ \A j \in DOMAIN storage.trips[i].expenses :
                  IF storage.trips[i].expenses[j].id = expenseId
                  THEN /\ storage'.trips[i].expenses[j].id = expenseId
                       /\ storage'.trips[i].expenses[j].createdAt
                              = storage.trips[i].expenses[j].createdAt
                  ELSE storage'.trips[i].expenses[j] = storage.trips[i].expenses[j]

\* C28: an updateExpense that returns the expense has changed only the
\* title, the amount, paidBy and the participants of the expense of the id
\* given, which is the one it returns: that expense keeps its id, its
\* createdAt and its place in the list, and every other expense, every
\* person and every other trip is as before
C28_UpdateChangesFourFields ==
    [][(called' = "updateExpense" /\ returned' \notin {Null, TypeError})
           => OnlyTheFourFieldsOf(returned'.id)]_vars

\* updateExpense has just returned an expense of a trip that holds two
\* expenses
C28_Witness ==
    /\ called = "updateExpense"
    /\ returned \notin {Null, TypeError, Undefined}
    /\ \E t \in StoredTrips :
           /\ Len(t.expenses) = 2
           /\ \E e \in StoredExpenses(t) : e.id = returned.id

\* C29: currentTripId is null or the id of a stored trip, and every id in
\* selectedTripIds is the id of a stored trip, after any sequence of calls
\* of the functions of the page and of clicks in the list of trips of one
\* tab
C29_SelectionIsStored ==
    /\ currentTripId \in TripIds \cup {Null}
    /\ selectedTripIds \subseteq TripIds

\* deleteTrip has just deleted a trip, no trip is open and every trip that
\* is left is checked in the list
C29_Witness ==
    /\ called = "deleteTrip"
    /\ alerted = ""
    /\ uuids > Len(storage.trips)
    /\ storage.trips # <<>>
    /\ selectedTripIds = TripIds
    /\ currentTripId = Null

====
